---- MODULE Spec2Model ----
(***************************************************************************)
(* Model of src/Poker/poker.py: the PokerGame class (zones Deck,           *)
(* PlayerHand, opponent hands, Board, Burned) and its estimation calls.    *)
(*                                                                         *)
(* Cards are the integers 1..DeckSize in the order __init__ builds the     *)
(* deck (rank-major), so the last element of the deck list is the card     *)
(* list.pop() returns.                                                     *)
(*                                                                         *)
(* The evaluator is the external capability the code calls: evaluate is a  *)
(* total score on card lists with the convention "lower is stronger", and  *)
(* HAND_EVAL is its registry from category name to threshold score.        *)
(*                                                                         *)
(* new_game replaces the list self.deck by a Deck object of the evaluator  *)
(* library.  That object is neither a container nor a sequence and has no  *)
(* pop method, so `card in self.deck` and random.sample(self.deck, 2)      *)
(* raise TypeError and remaining_deck.pop() raises AttributeError;         *)
(* deck_is_obj records which of the two self.deck is.                      *)
(*                                                                         *)
(* A public method is one step.  The two estimation methods are an entry   *)
(* step followed by one step per loop iteration, the last of which         *)
(* returns; nothing else runs between these steps.  raised is the          *)
(* exception that ended the last call, printed its error lines.            *)
(***************************************************************************)
EXTENDS Integers, Sequences, FiniteSets, TLC

\* ---------------------------------------------------------------- bounds
DeckSize == 7        \* cards in the universe (52 in the program)
Trials == 2          \* iterations of the simulation loops (10000 in the program)
MaxCalls == 2        \* public method calls explored in one session

\* ------------------------------------------------------ program constants
BoardTarget == 5     \* community cards a trial completes to
HandSize == 2        \* cards drawn by random.sample(self.deck, 2)

Cards == 1..DeckSize

\* self.deck = [rank + suit for rank in ranks for suit in suits]
FullDeck == [i \in 1..DeckSize |-> i]

\* ---------------------------------------------------------------- inputs
\* num_players given to the constructor and to new_game
PlayerInputs == {1, 2}
\* hole_cards given to the constructor and to new_game
HoleInputs == {<<1, 2>>, <<DeckSize, 3>>}
\* argument lists of update_board: a flop, single cards, a repeated card
BoardInputs == {<<3, 4, 5>>, <<6>>, <<3, 4, 5, 6, 7>>, <<6, 6, 1>>}
\* cards given to reveal_card and add_to_opponent_hand
CardInputs == {2, 6, DeckSize}
\* opponent names given to add_to_opponent_hand: player1, player2, player3
NameInputs == {1, 2, 3}
\* flop / turn / river commands: the name and the card tokens typed after it
CommandInputs == {[name |-> "turn", cards |-> <<6>>],
                  [name |-> "flop", cards |-> <<3, 4, 5>>],
                  [name |-> "flop", cards |-> <<1, 2, 6>>]}
\* commands that call no method of the game
PrintOnlyInputs == {"help", "invalid"}
\* hand_type names given to calculate_hand_probability
HandTypeInputs == {"pair", "flush", "fluhs"}

\* ------------------------------------------------------ list primitives
SeqToSet(s) == {s[i] : i \in 1..Len(s)}

\* [card for card in self.deck if card not in hand]
Without(s, S) == SelectSeq(s, LAMBDA c : c \notin S)

\* list.remove(card): drops the first occurrence
RECURSIVE ListRemove(_, _)
ListRemove(s, c) ==
    IF s = <<>> THEN <<>>
    ELSE IF Head(s) = c THEN Tail(s)
    ELSE <<Head(s)>> \o ListRemove(Tail(s), c)

\* n successive list.pop() calls: the popped cards, last element first
RECURSIVE PopN(_, _)
PopN(s, n) ==
    IF n <= 0 THEN <<>>
    ELSE <<s[Len(s)]>> \o PopN(SubSeq(s, 1, Len(s) - 1), n - 1)

\* the list left after n successive list.pop() calls
DropLast(s, n) == IF n <= 0 THEN s ELSE SubSeq(s, 1, Len(s) - n)

RECURSIVE SumSeq(_)
SumSeq(s) == IF s = <<>> THEN 0 ELSE Head(s) + SumSeq(Tail(s))

\* ------------------------------------------------------------- evaluator
\* self.evaluator.evaluate(hand, community): a total score, lower = stronger
evaluate(hand, community) == 1 + SumSeq(hand \o community)

\* evaluator.HAND_EVAL: category name -> threshold score
HAND_EVAL == [pair |-> 20, flush |-> 10]

ValidHandType_any(hand_type) == TRUE
\* hand_type in evaluator.HAND_EVAL
ValidHandType(hand_type) == hand_type \in DOMAIN HAND_EVAL

\* ------------------------------------------------------------------ state
VARIABLES
    deck,             \* self.deck (list contents; see deck_is_obj)
    deck_is_obj,      \* TRUE once new_game has set self.deck = Deck()
    num_players,      \* self.num_players
    players_hands,    \* self.players_hands["player1"]
    opponents_hands,  \* self.opponents_hands, keyed by i for "player<i>"
    board,            \* self.board
    burned_cards,     \* self.burned_cards
    pc,               \* "idle", or the loop being executed: "sim" / "hit"
    last_op,          \* name of the public method last entered
    raised,           \* exception that ended the last call, or "none"
    printed,          \* error lines printed by the last call
    result,           \* value returned by the last estimation call
    trial,            \* loop index of the running estimation
    win_count,        \* win_count of the running estimation
    sim_hands,        \* opponent_hands argument of simulate_remaining_game
    remaining_deck,   \* trial-local copy of the deck
    remaining_board,  \* trial-local copy of the board
    player_score,     \* player_score of the last trial
    opponent_scores,  \* opponent_scores of the last trial
    snap,             \* zones at entry of the running estimation method
    args,             \* arguments of the public method last entered
    calls             \* number of public method calls made so far

zones == <<deck, deck_is_obj, num_players, players_hands, opponents_hands,
           board, burned_cards>>
call == <<pc, last_op, raised, printed, result>>
loop == <<trial, win_count, sim_hands, remaining_deck, remaining_board,
          player_score, opponent_scores, snap>>
vars == <<zones, call, loop, args, calls>>

NoResult == -1

Zones == [deck |-> deck, deck_is_obj |-> deck_is_obj,
          players_hands |-> players_hands,
          opponents_hands |-> opponents_hands,
          board |-> board, burned_cards |-> burned_cards]

\* {f"player{i}": [] for i in range(2, num_players + 1)}
EmptyOpponents(n) == [i \in 2..n |-> <<>>]

\* list(self.opponents_hands.values())
HandValues(opp) ==
    [k \in 1..Cardinality(DOMAIN opp) |-> opp[k + 1]]

\* ------------------------------------------------------------------- Init
\* PokerGame.__init__(num_players, hole_cards)
Init ==
    /\ \E n \in PlayerInputs, h \in HoleInputs :
          /\ num_players = n
          /\ players_hands = h
          /\ opponents_hands = EmptyOpponents(n)
          /\ args = <<n, h>>
    /\ deck = FullDeck
    /\ deck_is_obj = FALSE
    /\ board = <<>>
    /\ burned_cards = <<>>
    /\ calls = 0
    /\ pc = "idle"
    /\ last_op = "__init__"
    /\ raised = "none"
    /\ printed = <<>>
    /\ result = NoResult
    /\ trial = 0
    /\ win_count = 0
    /\ sim_hands = <<>>
    /\ remaining_deck = <<>>
    /\ remaining_board = <<>>
    /\ player_score = 0
    /\ opponent_scores = <<>>
    /\ snap = <<>>

\* the locals of the estimation loops do not outlive their call
NoLoop ==
    /\ trial' = 0
    /\ win_count' = 0
    /\ sim_hands' = <<>>
    /\ remaining_deck' = <<>>
    /\ remaining_board' = <<>>
    /\ player_score' = 0
    /\ opponent_scores' = <<>>
    /\ snap' = <<>>

\* the command loop after an exception that is not caught
Resume_uncaught(exc) == IF exc = "none" THEN "idle" ELSE "exited"
\* the command loop after a call: `except Exception as e` prints the error
\* and the loop prompts again
Resume(exc) == "idle"

\* bookkeeping shared by the methods that run no estimation loop
Entered(op, a, exc, out) ==
    /\ pc' = Resume(exc)
    /\ last_op' = op
    /\ raised' = exc
    /\ printed' = out
    /\ result' = NoResult
    /\ args' = a
    /\ calls' = calls + 1
    /\ NoLoop

\* ----------------------------------------------------------- random.sample
\* random.sample(self.deck, 2): every ordered pair of distinct positions
Sample(d) ==
    {<<d[a], d[b]>> : a \in 1..Len(d), b \in 1..Len(d)} \
        {<<d[a], d[a]>> : a \in 1..Len(d)}

\* PokerGame.deal_hole_cards
deal_hole_cards ==
    /\ pc = "idle"
    /\ calls < MaxCalls
    /\ IF deck_is_obj
       THEN /\ Entered("deal_hole_cards", <<>>, "TypeError", <<>>)
            /\ UNCHANGED zones
       ELSE IF Len(deck) < HandSize
       THEN /\ Entered("deal_hole_cards", <<>>, "ValueError", <<>>)
            /\ UNCHANGED zones
       ELSE \E p \in Sample(deck) :
            /\ players_hands' = p
            /\ deck' = Without(deck, SeqToSet(p))
            /\ Entered("deal_hole_cards", <<>>, "none", <<>>)
            /\ UNCHANGED <<deck_is_obj, num_players, opponents_hands,
                           board, burned_cards>>

\* the loop of deal_opponent_hands from opponent i on: the set of outcomes
\* (deck, hands, exception) over all choices of random.sample
RECURSIVE DealFrom(_, _, _, _, _)
DealFrom(i, n, d, isobj, opp) ==
    IF i > n
    THEN {[deck |-> d, hands |-> opp, raised |-> "none"]}
    ELSE IF isobj
    THEN {[deck |-> d, hands |-> opp, raised |-> "TypeError"]}
    ELSE IF Len(d) < HandSize
    THEN {[deck |-> d, hands |-> opp, raised |-> "ValueError"]}
    ELSE UNION {DealFrom(i + 1, n, Without(d, SeqToSet(p)), isobj,
                         [opp EXCEPT ![i] = p]) : p \in Sample(d)}

DealOutcomes == DealFrom(2, num_players, deck, deck_is_obj, opponents_hands)

\* PokerGame.deal_opponent_hands
deal_opponent_hands ==
    /\ pc = "idle"
    /\ calls < MaxCalls
    /\ \E o \in DealOutcomes :
          /\ deck' = o.deck
          /\ opponents_hands' = o.hands
          /\ Entered("deal_opponent_hands", <<>>, o.raised, <<>>)
    /\ UNCHANGED <<deck_is_obj, num_players, players_hands, board,
                   burned_cards>>

\* one iteration of the loop of update_board
BoardStep(st, card) ==
    IF card \in SeqToSet(st.deck)
    THEN [deck |-> ListRemove(st.deck, card),
          board |-> Append(st.board, card),
          printed |-> st.printed]
    ELSE [deck |-> st.deck, board |-> st.board,
          printed |-> Append(st.printed, <<"CardNotInDeck", card>>)]

RECURSIVE BoardLoop(_, _)
BoardLoop(st, cards) ==
    IF cards = <<>> THEN st
    ELSE BoardLoop(BoardStep(st, Head(cards)), Tail(cards))

\* PokerGame.update_board(*args)
update_board ==
    /\ pc = "idle"
    /\ calls < MaxCalls
    /\ \E cards \in BoardInputs :
          IF deck_is_obj
          THEN /\ Entered("update_board", cards, "TypeError", <<>>)
               /\ UNCHANGED zones
          ELSE LET st == BoardLoop([deck |-> deck, board |-> board,
                                    printed |-> <<>>], cards)
               IN /\ deck' = st.deck
                  /\ board' = st.board
                  /\ Entered("update_board", cards, "none", st.printed)
                  /\ UNCHANGED <<deck_is_obj, num_players, players_hands,
                                 opponents_hands, burned_cards>>

\* PokerGame.new_game(num_players, hole_cards)
new_game ==
    /\ pc = "idle"
    /\ calls < MaxCalls
    /\ \E n \in PlayerInputs, h \in HoleInputs :
          /\ num_players' = n
          /\ players_hands' = h
          /\ opponents_hands' = EmptyOpponents(n)
          /\ Entered("new_game", <<n, h>>, "none", <<>>)
    /\ deck' = FullDeck
    /\ deck_is_obj' = TRUE
    /\ board' = <<>>
    /\ burned_cards' = <<>>

\* PokerGame.reveal_card(card)
reveal_card ==
    /\ pc = "idle"
    /\ calls < MaxCalls
    /\ \E card \in CardInputs :
          IF deck_is_obj
          THEN /\ Entered("reveal_card", <<card>>, "TypeError", <<>>)
               /\ UNCHANGED zones
          ELSE IF card \in SeqToSet(deck)
          THEN /\ burned_cards' = Append(burned_cards, card)
               /\ deck' = ListRemove(deck, card)
               /\ Entered("reveal_card", <<card>>, "none", <<>>)
               /\ UNCHANGED <<deck_is_obj, num_players, players_hands,
                              opponents_hands, board>>
          ELSE /\ Entered("reveal_card", <<card>>, "none",
                          <<<<"CardNotInDeck", card>>>>)
               /\ UNCHANGED zones

\* PokerGame.add_to_opponent_hand(player_name, card)
add_to_opponent_hand ==
    /\ pc = "idle"
    /\ calls < MaxCalls
    /\ \E name \in NameInputs, card \in CardInputs :
          IF name \notin DOMAIN opponents_hands
          THEN /\ Entered("add_to_opponent_hand", <<name, card>>, "none",
                          <<<<"UnknownOpponent", name>>>>)
               /\ UNCHANGED zones
          ELSE IF deck_is_obj
          THEN /\ Entered("add_to_opponent_hand", <<name, card>>,
                          "TypeError", <<>>)
               /\ UNCHANGED zones
          ELSE IF card \in SeqToSet(deck)
          THEN /\ opponents_hands' =
                     [opponents_hands EXCEPT ![name] = Append(@, card)]
               /\ deck' = ListRemove(deck, card)
               /\ Entered("add_to_opponent_hand", <<name, card>>, "none",
                          <<>>)
               /\ UNCHANGED <<deck_is_obj, num_players, players_hands,
                              board, burned_cards>>
          ELSE /\ Entered("add_to_opponent_hand", <<name, card>>, "none",
                          <<<<"CardNotInDeck", card>>>>)
               /\ UNCHANGED zones

\* ------------------------------------------------------ estimation loops
\* range(5 - len(self.board) - len(self.burned_cards))
Missing == BoardTarget - Len(board) - Len(burned_cards)

\* self.deck after the pops of one trial when no copy is taken
DeckAfterTrial_aliased(d, n) == DropLast(d, n)
\* self.deck after the pops of one trial: they act on deepcopy(self.deck)
DeckAfterTrial(d, n) == d

\* all(player_score > score for score in opponent_scores)
CountsAsWin(ps, scores) == \A k \in 1..Len(scores) : ps > scores[k]

\* any(score >= hand_type_score for score in opponent_scores)
CountsAsHit(threshold, scores) ==
    \E k \in 1..Len(scores) : scores[k] >= threshold

\* remaining_board + remaining_burned after the pops of one trial
Community == board \o PopN(deck, Missing) \o burned_cards

\* exception raised by remaining_deck.pop() in one trial, or "none"
PopError ==
    IF Missing <= 0 THEN "none"
    ELSE IF deck_is_obj THEN "AttributeError"
    ELSE IF Missing > Len(deck) THEN "IndexError"
    ELSE "none"

\* entry of simulate_remaining_game(opponent_hands)
EnterSim(op, hands) ==
    /\ pc' = "sim"
    /\ last_op' = op
    /\ raised' = "none"
    /\ printed' = <<>>
    /\ result' = NoResult
    /\ trial' = 0
    /\ win_count' = 0
    /\ sim_hands' = hands
    /\ remaining_deck' = <<>>
    /\ remaining_board' = <<>>
    /\ player_score' = 0
    /\ opponent_scores' = <<>>

\* a call ended by an exception before its loop started
Aborted(op, exc) ==
    /\ pc' = Resume(exc)
    /\ last_op' = op
    /\ raised' = exc
    /\ printed' = <<>>
    /\ result' = NoResult
    /\ NoLoop

\* PokerGame.simulate_remaining_game(list(self.opponents_hands.values()))
simulate_remaining_game ==
    /\ pc = "idle"
    /\ calls < MaxCalls
    /\ EnterSim("simulate_remaining_game", HandValues(opponents_hands))
    /\ snap' = Zones
    /\ args' = <<HandValues(opponents_hands)>>
    /\ calls' = calls + 1
    /\ UNCHANGED zones

\* PokerGame.calculate_win_probabilities, up to the first loop iteration
calculate_win_probabilities ==
    /\ pc = "idle"
    /\ calls < MaxCalls
    /\ args' = <<>>
    /\ calls' = calls + 1
    /\ \E o \in DealOutcomes :
          /\ deck' = o.deck
          /\ opponents_hands' = o.hands
          /\ IF o.raised # "none"
             THEN Aborted("calculate_win_probabilities", o.raised)
             ELSE IF Len(board) = 0 /\ Len(burned_cards) = 0
             THEN /\ EnterSim("calculate_win_probabilities",
                              HandValues(o.hands))
                  /\ snap' = [Zones EXCEPT !.deck = o.deck,
                                           !.opponents_hands = o.hands]
             ELSE \* list(...) has no attribute 'values'
                  Aborted("calculate_win_probabilities", "AttributeError")
    /\ UNCHANGED <<deck_is_obj, num_players, players_hands, board,
                   burned_cards>>

\* one iteration of the loop of simulate_remaining_game; the last one returns
SimTrial ==
    /\ pc = "sim"
    /\ IF PopError # "none"
       THEN /\ pc' = Resume(PopError)
            /\ raised' = PopError
            /\ UNCHANGED <<zones, last_op, printed, result, loop>>
       ELSE LET ps == evaluate(players_hands, Community)
                os == [k \in 1..Len(sim_hands) |->
                          evaluate(sim_hands[k], Community)]
                wc == IF CountsAsWin(ps, os) THEN win_count + 1
                      ELSE win_count
            IN /\ remaining_deck' = DropLast(deck, Missing)
               /\ remaining_board' = board \o PopN(deck, Missing)
               /\ player_score' = ps
               /\ opponent_scores' = os
               /\ win_count' = wc
               /\ trial' = trial + 1
               /\ deck' = DeckAfterTrial(deck, Missing)
               /\ IF trial + 1 = Trials
                  THEN pc' = "idle" /\ result' = wc
                  ELSE pc' = "sim" /\ result' = NoResult
               /\ UNCHANGED <<deck_is_obj, num_players, players_hands,
                              opponents_hands, board, burned_cards,
                              last_op, raised, printed, sim_hands, snap>>
    /\ UNCHANGED <<args, calls>>

\* PokerGame.calculate_hand_probability(hand_type), up to the first iteration
calculate_hand_probability ==
    /\ pc = "idle"
    /\ calls < MaxCalls
    /\ \E hand_type \in HandTypeInputs :
          /\ args' = <<hand_type>>
          /\ calls' = calls + 1
          /\ last_op' = "calculate_hand_probability"
          /\ raised' = "none"
          /\ result' = NoResult
          /\ trial' = 0
          /\ win_count' = 0
          /\ snap' = Zones
          /\ IF ValidHandType(hand_type)
             THEN pc' = "hit" /\ printed' = <<>>
             ELSE /\ pc' = "idle"
                  /\ printed' = <<<<"InvalidHandType", hand_type>>>>
    /\ sim_hands' = <<>>
    /\ remaining_deck' = <<>>
    /\ remaining_board' = <<>>
    /\ player_score' = 0
    /\ opponent_scores' = <<>>
    /\ UNCHANGED zones

\* one iteration of the loop of calculate_hand_probability; the last returns
HitTrial ==
    /\ pc = "hit"
    /\ IF PopError # "none"
       THEN /\ pc' = Resume(PopError)
            /\ raised' = PopError
            /\ UNCHANGED <<zones, last_op, printed, result, loop>>
       ELSE \E o \in DealOutcomes :
            /\ remaining_deck' = DropLast(deck, Missing)
            /\ remaining_board' = board \o PopN(deck, Missing)
            /\ player_score' = evaluate(players_hands, Community)
            /\ deck' = o.deck
            /\ opponents_hands' = o.hands
            /\ UNCHANGED <<deck_is_obj, num_players, players_hands, board,
                           burned_cards, last_op, printed, sim_hands, snap>>
            /\ IF o.raised # "none"
               THEN /\ pc' = Resume(o.raised)
                    /\ raised' = o.raised
                    /\ UNCHANGED <<result, trial, win_count,
                                   opponent_scores>>
               ELSE LET os == [k \in 1..Len(HandValues(o.hands)) |->
                                  evaluate(HandValues(o.hands)[k], Community)]
                        wc == IF CountsAsHit(HAND_EVAL[args[1]], os)
                              THEN win_count + 1 ELSE win_count
                    IN /\ opponent_scores' = os
                       /\ win_count' = wc
                       /\ trial' = trial + 1
                       /\ raised' = "none"
                       /\ IF trial + 1 = Trials
                          THEN pc' = "idle" /\ result' = wc
                          ELSE pc' = "hit" /\ result' = NoResult
    /\ UNCHANGED <<args, calls>>

\* exception raised by get_beating_hands, or "none": a list has no attribute
\* 'cards'; self.players_hands[0] is no key of the dict once a combination
\* of self.deck.cards is visited
BeatingError ==
    IF ~deck_is_obj THEN "AttributeError"
    ELSE IF Len(deck) >= 2 THEN "KeyError"
    ELSE "none"

\* PokerGame.get_beating_hands (command outs)
get_beating_hands ==
    /\ pc = "idle"
    /\ calls < MaxCalls
    /\ pc' = Resume(BeatingError)
    /\ last_op' = "get_beating_hands"
    /\ raised' = BeatingError
    /\ printed' = <<>>
    /\ result' = IF BeatingError = "none" THEN <<>> ELSE NoResult
    /\ args' = <<>>
    /\ calls' = calls + 1
    /\ NoLoop
    /\ UNCHANGED zones

\* commands flop / turn / river of the command loop
cmd_flop_turn_river ==
    /\ pc = "idle"
    /\ calls < MaxCalls
    /\ \E c \in CommandInputs :
          LET command == <<c.name>> \o c.cards
          IN IF Len(command) >= 4
             THEN IF deck_is_obj
                  THEN /\ Entered(c.name, c.cards, "TypeError", <<>>)
                       /\ UNCHANGED zones
                  ELSE LET st == BoardLoop([deck |-> deck, board |-> board,
                                            printed |-> <<>>],
                                           SubSeq(command, 2, 4))
                       IN /\ deck' = st.deck
                          /\ board' = st.board
                          /\ Entered(c.name, c.cards, "none", st.printed)
                          /\ UNCHANGED <<deck_is_obj, num_players,
                                         players_hands, opponents_hands,
                                         burned_cards>>
             ELSE /\ Entered(c.name, c.cards, "none",
                             <<<<"MissingCardArguments", c.name>>>>)
                  /\ UNCHANGED zones

\* command newgame <n> with a count int() rejects
cmd_newgame_bad_count ==
    /\ pc = "idle"
    /\ calls < MaxCalls
    /\ Entered("newgame", <<"x">>, "ValueError", <<>>)
    /\ UNCHANGED zones

\* commands that only print: help, an unknown command
cmd_print_only ==
    /\ pc = "idle"
    /\ calls < MaxCalls
    /\ \E name \in PrintOnlyInputs :
          Entered(name, <<>>, "none", <<>>)
    /\ UNCHANGED zones

\* command exit: break
cmd_exit ==
    /\ pc = "idle"
    /\ calls < MaxCalls
    /\ pc' = "exited"
    /\ last_op' = "exit"
    /\ raised' = "none"
    /\ printed' = <<>>
    /\ result' = NoResult
    /\ args' = <<>>
    /\ calls' = calls + 1
    /\ NoLoop
    /\ UNCHANGED zones

Next ==
    \/ deal_hole_cards
    \/ deal_opponent_hands
    \/ update_board
    \/ new_game
    \/ reveal_card
    \/ add_to_opponent_hand
    \/ simulate_remaining_game
    \/ calculate_win_probabilities
    \/ SimTrial
    \/ calculate_hand_probability
    \/ HitTrial
    \/ get_beating_hands
    \/ cmd_flop_turn_river
    \/ cmd_newgame_bad_count
    \/ cmd_print_only
    \/ cmd_exit

Spec == Init /\ [][Next]_vars

\* ================================================================ claims
ZoneSets ==
    <<SeqToSet(deck), SeqToSet(players_hands), SeqToSet(board),
      SeqToSet(burned_cards)>> \o
    [k \in 1..Cardinality(DOMAIN opponents_hands) |->
        SeqToSet(opponents_hands[k + 1])]

\* the cards held outside opponent i's hand and outside the deck
HeldByOthers(i) ==
    SeqToSet(players_hands) \cup SeqToSet(board) \cup SeqToSet(burned_cards)
        \cup UNION {SeqToSet(opponents_hands[j]) :
                        j \in DOMAIN opponents_hands \ {i}}

\* C1: in every reachable state Deck, PlayerHand, each opponent hand, Board
\* and Burned are pairwise disjoint and their union is the whole universe.
C1_ZonesPartition ==
    /\ \A a \in 1..Len(ZoneSets), b \in 1..Len(ZoneSets) :
          a # b => ZoneSets[a] \cap ZoneSets[b] = {}
    /\ UNION {ZoneSets[a] : a \in 1..Len(ZoneSets)} = Cards

\* C2: a trial of simulate_remaining_game is counted as a win iff the
\* player's score is strictly lower than every opponent score of the trial
\* (stated for trials whose opponent hands all hold 2 cards).
C2_WinIffStrictlyLower ==
    [][(/\ pc = "sim"
        /\ trial' = trial + 1
        /\ \A k \in 1..Len(sim_hands) : Len(sim_hands[k]) = HandSize) =>
          ((win_count' = win_count + 1) <=>
             (\A k \in 1..Len(opponent_scores') :
                  player_score' < opponent_scores'[k]))]_vars

\* C3: during and after calculate_hand_probability the persistent zones
\* equal their values at the entry of the call.
C3_HitLeavesZones ==
    last_op = "calculate_hand_probability" => Zones = snap

\* C4: during and after simulate_remaining_game (called directly or from
\* calculate_win_probabilities) the persistent zones equal their values at
\* the entry of the call.
C4_SimLeavesZones ==
    (last_op \in {"simulate_remaining_game", "calculate_win_probabilities"}
        /\ snap # <<>>) => Zones = snap

\* C4 witness: a direct call has run all its trials, each popping cards from
\* its copy of the deck, and has returned a probability.
C4_Witness ==
    /\ pc = "idle"
    /\ last_op = "simulate_remaining_game"
    /\ trial = Trials
    /\ result \in 0..Trials
    /\ Len(remaining_deck) < Len(deck)
    /\ board # <<>>

\* C5: calculate_win_probabilities and calculate_hand_probability with a
\* valid hand_type return a probability in [0, 1] and raise nothing (stated
\* for games with an opponent whose deck is the list built by the
\* constructor).
C5_EstimatesReturn ==
    (/\ pc = "idle"
     /\ ~deck_is_obj
     /\ num_players >= 2
     /\ \/ last_op = "calculate_win_probabilities"
        \/ last_op = "calculate_hand_probability" /\ ValidHandType(args[1]))
    => (raised = "none" /\ result \in 0..Trials)

\* the positions of the argument list whose card update_board accepts: the
\* card is in Deck at the call and is not an earlier argument
AcceptedAt(d, cards, i) ==
    /\ cards[i] \in SeqToSet(d)
    /\ \A j \in 1..(i - 1) : cards[j] # cards[i]

RECURSIVE Chosen(_, _, _, _)
Chosen(d, cards, i, want) ==
    IF i > Len(cards) THEN <<>>
    ELSE (IF AcceptedAt(d, cards, i) = want THEN <<cards[i]>> ELSE <<>>)
            \o Chosen(d, cards, i + 1, want)

\* C6: update_board appends to Board, in order, exactly the arguments that
\* are in Deck when their turn comes and removes them from Deck; every other
\* argument is reported as not in the deck and changes nothing, and the
\* arguments after it are still processed.
C6_UpdateBoardPerCard ==
    [][(pc = "idle" /\ last_op' = "update_board") =>
          /\ board' = board \o Chosen(deck, args', 1, TRUE)
          /\ SeqToSet(deck') =
                SeqToSet(deck) \ SeqToSet(Chosen(deck, args', 1, TRUE))
          /\ Len(deck') = Len(deck) - Len(Chosen(deck, args', 1, TRUE))
          /\ printed' = [k \in 1..Len(Chosen(deck, args', 1, FALSE)) |->
                            <<"CardNotInDeck",
                              Chosen(deck, args', 1, FALSE)[k]>>]
          /\ raised' = "none"
          /\ UNCHANGED <<players_hands, opponents_hands, burned_cards>>]_vars

\* C7: after deal_opponent_hands no opponent holds a card that PlayerHand,
\* Board, Burned or another opponent's hand holds.
C7_DealtCardsUnheld ==
    (last_op = "deal_opponent_hands" /\ raised = "none") =>
        \A i \in DOMAIN opponents_hands :
            SeqToSet(opponents_hands[i]) \cap HeldByOthers(i) = {}

\* C8: deal_opponent_hands leaves the hand of an opponent that already has
\* cards unchanged, and draws nothing from Deck when every opponent has cards.
C8_DealOnlyEmptyHands ==
    [][(pc = "idle" /\ last_op' = "deal_opponent_hands") =>
          /\ \A i \in DOMAIN opponents_hands :
                opponents_hands[i] # <<>> =>
                    opponents_hands'[i] = opponents_hands[i]
          /\ (\A i \in DOMAIN opponents_hands : opponents_hands[i] # <<>>)
                => deck' = deck]_vars

\* C9: simulate_remaining_game given an opponent hand of fewer than 2 cards
\* is rejected: no trial runs and no probability is returned.
C9_PartialHandRejected ==
    (/\ last_op = "simulate_remaining_game"
     /\ \E k \in 1..Len(sim_hands) : Len(sim_hands[k]) < HandSize)
    => (trial = 0 /\ result = NoResult)

\* C10: calculate_hand_probability with a name outside the registry returns
\* None, reports the name, runs no trial and leaves every zone unchanged.
C10_InvalidHandType ==
    (last_op = "calculate_hand_probability" /\ args[1] \notin DOMAIN HAND_EVAL)
    => /\ pc = "idle"
       /\ result = NoResult
       /\ raised = "none"
       /\ printed = <<<<"InvalidHandType", args[1]>>>>
       /\ trial = 0
       /\ Zones = snap

\* C10 witness: the call was made with the misspelt name and was reported.
C10_Witness ==
    /\ last_op = "calculate_hand_probability"
    /\ args = <<"fluhs">>
    /\ printed = <<<<"InvalidHandType", "fluhs">>>>
    /\ deck # FullDeck

\* C11: after new_game(num_players, hole_cards) Deck is the full fresh deck
\* (the list the constructor builds), PlayerHand is hole_cards, Board and
\* Burned are empty and the opponents are player2..player<num_players>, each
\* with an empty hand.
C11_NewGameResets ==
    last_op = "new_game" =>
        /\ deck = FullDeck
        /\ ~deck_is_obj
        /\ players_hands = args[2]
        /\ board = <<>>
        /\ burned_cards = <<>>
        /\ num_players = args[1]
        /\ opponents_hands = EmptyOpponents(args[1])

\* C12: add_to_opponent_hand(name, card) reports an unknown opponent and
\* changes nothing when name is no configured opponent; else reports the card
\* as not in the deck and changes nothing when card is not in Deck; else
\* appends card to that hand, removes it from Deck and changes nothing else.
C12_AddToOpponentHand ==
    [][(pc = "idle" /\ last_op' = "add_to_opponent_hand") =>
          /\ raised' = "none"
          /\ IF args'[1] \notin DOMAIN opponents_hands
             THEN /\ printed' = <<<<"UnknownOpponent", args'[1]>>>>
                  /\ UNCHANGED zones
             ELSE IF args'[2] \notin SeqToSet(deck)
             THEN /\ printed' = <<<<"CardNotInDeck", args'[2]>>>>
                  /\ UNCHANGED zones
             ELSE /\ printed' = <<>>
                  /\ opponents_hands' =
                        [opponents_hands EXCEPT
                            ![args'[1]] = Append(@, args'[2])]
                  /\ SeqToSet(deck') = SeqToSet(deck) \ {args'[2]}
                  /\ Len(deck') = Len(deck) - 1
                  /\ UNCHANGED <<players_hands, board, burned_cards,
                                 num_players>>]_vars

\* the unordered 2-card combinations of a list
Pairs(d) ==
    {<<d[ij[1]], d[ij[2]]>> :
         ij \in {x \in (1..Len(d)) \X (1..Len(d)) : x[1] < x[2]}}

\* C13: get_beating_hands returns the list of exactly the 2-card
\* combinations of Deck whose score on the Board beats the player's, at most
\* C(|Deck|, 2) of them.
C13_BeatingHandsListed ==
    last_op = "get_beating_hands" =>
        /\ raised = "none"
        /\ result # NoResult
        /\ SeqToSet(result) =
              {p \in Pairs(deck) :
                   evaluate(p, board) < evaluate(players_hands, board)}
        /\ 2 * Len(result) <= Len(deck) * (Len(deck) - 1)

\* C14: the session ends on the exit command and on nothing else: after any
\* other call, failed or not, the loop is back at its prompt or still inside
\* the call.
C14_OnlyExitEnds ==
    [][(pc' = "exited") <=> (pc = "idle" /\ last_op' = "exit")]_vars

\* C14 witness: a command failed with an exception after an earlier command
\* and the loop is at its prompt again.
C14_Witness ==
    /\ pc = "idle"
    /\ calls = 2
    /\ last_op = "calculate_win_probabilities"
    /\ raised = "AttributeError"

\* C15: every trial of simulate_remaining_game draws exactly
\* max(0, 5 - |Board| - |Burned|) cards from its copy of the Deck onto its
\* copy of the Board, and a call made with a 5-card Board and no burned card
\* returns exactly 0 or exactly 1.
C15_TrialDrawsMissing ==
    [][pc = "sim" =>
          /\ Len(remaining_board') =
                Len(board) + (IF Missing > 0 THEN Missing ELSE 0)
          /\ SubSeq(remaining_board', 1, Len(board)) = board
          /\ Len(remaining_deck') =
                Len(deck) - (IF Missing > 0 THEN Missing ELSE 0)
          /\ SeqToSet(remaining_deck') \cup SeqToSet(remaining_board') =
                SeqToSet(deck) \cup SeqToSet(board)
          /\ (pc' = "idle" /\ Len(board) = BoardTarget /\ burned_cards = <<>>)
                => result' \in {0, Trials}]_vars

\* C16: when cards are missing, every subset of the Deck of that size can be
\* the completion a trial draws.
C16_AnyCompletionDrawable ==
    (pc = "sim" /\ Missing > 0 /\ PopError = "none") =>
        \A S \in SUBSET SeqToSet(deck) :
            Cardinality(S) = Missing =>
                ENABLED (SimTrial /\ SeqToSet(remaining_board') =
                                        SeqToSet(board) \cup S)

\* C17: Board never holds more than 5 cards.
C17_BoardAtMostFive == Len(board) <= BoardTarget

\* C18: no opponent's hand ever holds more than 2 cards.
C18_HandAtMostTwo ==
    \A i \in DOMAIN opponents_hands : Len(opponents_hands[i]) <= HandSize

\* C19: the command turn <card> (or river <card>) with a card that is in
\* Deck appends that card to Board and removes it from Deck (stated for the
\* list deck built by the constructor).
C19_TurnAddsOneCard ==
    [][(/\ pc = "idle"
        /\ ~deck_is_obj
        /\ last_op' \in {"turn", "river"}
        /\ Len(args') = 1
        /\ args'[1] \in SeqToSet(deck)) =>
          /\ board' = Append(board, args'[1])
          /\ SeqToSet(deck') = SeqToSet(deck) \ {args'[1]}]_vars

\* C20: the community cards a trial of simulate_remaining_game evaluates
\* contain no card of PlayerHand and no card of an opponent hand passed in.
C20_CommunityExcludesHands ==
    (/\ last_op \in {"simulate_remaining_game", "calculate_win_probabilities"}
     /\ trial > 0) =>
        SeqToSet(remaining_board \o burned_cards) \cap
            (SeqToSet(players_hands) \cup
             UNION {SeqToSet(sim_hands[k]) : k \in 1..Len(sim_hands)}) = {}

====
